---------------------------- MODULE Spec2Model ----------------------------
(***************************************************************************)
(* Model of src/hnoca/snapseed/utils.py: the masked aggregators, the       *)
(* marker-hierarchy depth, the binary marker encoder, the feature matcher, *)
(* get_expr and the long-format reshaper.                                  *)
(*                                                                         *)
(* The module is a library of functions without shared state, so the state *)
(* of the program is one call: which function is called with which         *)
(* arguments (call), whether it has returned (pc) and what it returned     *)
(* (ret).  stack_dropna is the one property of the installed pandas the    *)
(* code's result depends on: whether DataFrame.stack() drops missing       *)
(* values (pandas < 3, the default dropna=True) or keeps them (the         *)
(* implementation that pandas 3 makes the default).                        *)
(*                                                                         *)
(* Numbers are exact: a jnp float result n/d is the pair [num, den], and   *)
(* the IEEE result of 0/0 (NaN) is the pair with den = 0.                  *)
(***************************************************************************)
EXTENDS Integers, Sequences, FiniteSets

VARIABLES call, pc, ret, stack_dropna

vars == <<call, pc, ret, stack_dropna>>

---------------------------------------------------------------------------
(* Bounds of the model                                                     *)

MaxRows == 2
MaxCols == 2
MaxGroups == 2
MaxNodes == 5
MaxGenes == 2
MaxRequested == 3
MaxVars == 3
MaxFeatures == 2

\* entries of an expression matrix
Values == {-1, 2}

---------------------------------------------------------------------------
(* Generic helpers                                                         *)

Max(m, n) == IF m >= n THEN m ELSE n

Range(s) == {s[i] : i \in DOMAIN s}

RECURSIVE SeqSum(_)
SeqSum(s) == IF s = <<>> THEN 0 ELSE s[1] + SeqSum(Tail(s))

RECURSIVE SeqMax(_)
SeqMax(s) == IF Len(s) = 1 THEN s[1] ELSE Max(s[1], SeqMax(Tail(s)))

RECURSIVE SetSum(_, _)
SetSum(S, f) ==
    IF S = {} THEN 0
    ELSE LET e == CHOOSE e \in S : TRUE IN f[e] + SetSum(S \ {e}, f)

SetMax(S) == CHOOSE m \in S : \A n \in S : n <= m

Matrices(r, c, V) == [1..r -> [1..c -> V]]

Pending == [status |-> "pending"]

---------------------------------------------------------------------------
(* Masked aggregators: masked_max, masked_mean                             *)

\* jnp true division, exact; the pair with den = 0 and num = 0 is 0/0, NaN
Div(n, d) == [num |-> n, den |-> d]

\* numpy broadcasting of x (rows x cols) against a vector m: m runs along
\* the last axis of x, and an axis of length 1 is stretched
BroadcastOk(x, m) == Len(x[1]) = Len(m) \/ Len(x[1]) = 1 \/ Len(m) = 1

\* x * mask
Mul(x, m) ==
    LET C == Len(x[1])
        L == Len(m)
    IN [i \in 1..Len(x) |->
          [j \in 1..Max(C, L) |->
              x[i][IF C = 1 THEN 1 ELSE j] * m[IF L = 1 THEN 1 ELSE j]]]

\* jnp.max(x * mask, axis=1) for one mask
max_of_masked(x, m) == [i \in 1..Len(x) |-> SeqMax(Mul(x, m)[i])]

\* a faulty variant: the sum divided by the number of all cells
mean_of_all_cells(x, m) ==
    [i \in 1..Len(x) |-> Div(SeqSum(Mul(x, m)[i]), Len(m))]

\* jnp.sum(x * mask, axis=1) / jnp.sum(mask) for one mask
mean_of_masked(x, m) ==
    [i \in 1..Len(x) |-> Div(SeqSum(Mul(x, m)[i]), SeqSum(m))]

\* vmap over the masks (in_axes=[None, 0]): every mask against the same x
masked_max(x, mask) ==
    IF \A g \in DOMAIN mask : BroadcastOk(x, mask[g])
    THEN [status |-> "ok",
          value |-> [g \in DOMAIN mask |-> max_of_masked(x, mask[g])]]
    ELSE [status |-> "TypeError"]

masked_mean(x, mask) ==
    IF \A g \in DOMAIN mask : BroadcastOk(x, mask[g])
    THEN [status |-> "ok",
          value |-> [g \in DOMAIN mask |-> mean_of_masked(x, mask[g])]]
    ELSE [status |-> "TypeError"]

InitAggregate ==
    /\ pc = "start"
    /\ ret = Pending
    /\ \E f \in {"masked_max", "masked_mean"},
          r \in 1..MaxRows, c \in 1..MaxCols, g \in 1..MaxGroups, l \in 1..MaxCols :
          \E x \in Matrices(r, c, Values), mask \in Matrices(g, l, {0, 1}) :
             call = [fn |-> f, args |-> [x |-> x, mask |-> mask]]
    /\ stack_dropna = TRUE

CallMaskedMax ==
    /\ pc = "start"
    /\ call.fn = "masked_max"
    /\ ret' = masked_max(call.args.x, call.args.mask)
    /\ pc' = "done"
    /\ UNCHANGED <<call, stack_dropna>>

CallMaskedMean ==
    /\ pc = "start"
    /\ call.fn = "masked_mean"
    /\ ret' = masked_mean(call.args.x, call.args.mask)
    /\ pc' = "done"
    /\ UNCHANGED <<call, stack_dropna>>

---------------------------------------------------------------------------
(* Marker hierarchy: marker_dict_depth                                     *)

\* A hierarchy is a dict in insertion order: the sequence of its values.
\* A value (data) records what the code asks of it: has_subtypes is
\* "subtypes" in data, is_dict is isinstance(data["subtypes"], dict), and
\* subtypes is the nested hierarchy when it is one.
Leaf == [has_subtypes |-> FALSE, is_dict |-> FALSE, subtypes |-> <<>>]

NotADict == [has_subtypes |-> TRUE, is_dict |-> FALSE, subtypes |-> <<>>]

Internal(h) == [has_subtypes |-> TRUE, is_dict |-> TRUE, subtypes |-> h]

RECURSIVE marker_dict_depth(_)
RECURSIVE depth_loop(_, _, _)

\* a faulty variant of the loop: max_depth = depth, the last entry wins
depth_loop_last(h, i, max_depth) ==
    IF i > Len(h) THEN max_depth
    ELSE LET data == h[i]
             depth == IF data.has_subtypes /\ data.is_dict
                      THEN 1 + marker_dict_depth(data.subtypes)
                      ELSE 1
         IN depth_loop(h, i + 1, depth)

\* the for loop of marker_dict_depth from its i-th item on
depth_loop(h, i, max_depth) ==
    IF i > Len(h) THEN max_depth
    ELSE LET data == h[i]
             depth == IF data.has_subtypes /\ data.is_dict
                      THEN 1 + marker_dict_depth(data.subtypes)
                      ELSE 1
         IN depth_loop(h, i + 1, Max(max_depth, depth))

marker_dict_depth(h) == depth_loop(h, 1, 0)

\* the hierarchies of n nodes in all, and the nodes heading k nodes
RECURSIVE Hierarchies(_)
RECURSIVE Nodes(_)
Hierarchies(n) ==
    IF n = 0 THEN {<<>>}
    ELSE UNION {{<<t>> \o h : t \in Nodes(k), h \in Hierarchies(n - k)} :
                   k \in 1..n}

Nodes(k) ==
    IF k = 1 THEN {Leaf, NotADict, Internal(<<>>)}
    ELSE {Internal(h) : h \in Hierarchies(k - 1)}

InitDepth ==
    /\ pc = "start"
    /\ ret = Pending
    /\ \E h \in UNION {Hierarchies(n) : n \in 0..MaxNodes} :
          call = [fn |-> "marker_dict_depth", args |-> [marker_hierarchy |-> h]]
    /\ stack_dropna = TRUE

CallMarkerDictDepth ==
    /\ pc = "start"
    /\ call.fn = "marker_dict_depth"
    /\ ret' = [status |-> "ok",
               value |-> marker_dict_depth(call.args.marker_hierarchy)]
    /\ pc' = "done"
    /\ UNCHANGED <<call, stack_dropna>>

---------------------------------------------------------------------------
(* Binary marker encoder: dict_to_binary                                   *)

\* The names a call may use, each listed in ascending (sorted) order, so
\* that the position of a name in its list is its rank under pandas' sort.
GroupNames == <<"A", "B", "C">>

GeneNames == <<"g1", "g2">>

\* the elements of S in ascending order
Sorted(names, S) == SelectSeq(names, LAMBDA n : n \in S)

\* a missing value (NaN) and a present one, as the cells of a frame
NaN == [na |-> TRUE, v |-> ""]

Val(v) == [na |-> FALSE, v |-> v]

\* d.items(): the dict in insertion order, as <<[k, v], ...>>
Keys(d) == [j \in DOMAIN d |-> d[j].k]

\* pd.concat([pd.Series(v, name=k).astype(str) ...], axis=1): one column per
\* key in insertion order, as many rows as the longest list, the shorter
\* lists padded with NaN.  The lists hold strs, which astype(str) keeps.
concat(d) ==
    LET n == SetMax({Len(d[j].v) : j \in DOMAIN d})
    IN [columns |-> Keys(d),
        data |-> [i \in 1..n |->
                    [j \in DOMAIN d |->
                        IF i <= Len(d[j].v) THEN Val(d[j].v[i]) ELSE NaN]]]

\* df.stack(): the cells in row-major order, each indexed by (row, column);
\* the missing ones dropped when stack drops them
stack(df, dropna) ==
    LET m == Len(df.columns)
        flat == [p \in 1..(Len(df.data) * m) |->
                    [row |-> ((p - 1) \div m) + 1,
                     col |-> df.columns[((p - 1) % m) + 1],
                     val |-> df.data[((p - 1) \div m) + 1][((p - 1) % m) + 1]]]
    IN IF dropna THEN SelectSeq(flat, LAMBDA e : ~e.val.na) ELSE flat

\* the columns of pd.get_dummies: the distinct present values, sorted
dummy_columns(s) ==
    Sorted(GeneNames, {s[p].val.v : p \in {q \in DOMAIN s : ~s[q].val.na}})

\* pd.get_dummies(s): one indicator row per entry of s (all 0 for NaN)
get_dummies(s) ==
    [p \in DOMAIN s |->
        [g \in Range(dummy_columns(s)) |->
            IF ~s[p].val.na /\ s[p].val.v = g THEN 1 ELSE 0]]

RECURSIVE FirstSeen(_)
\* the distinct elements of a sequence in the order of their first occurrence
FirstSeen(q) ==
    IF q = <<>> THEN <<>>
    ELSE LET init == FirstSeen(SubSeq(q, 1, Len(q) - 1))
         IN IF q[Len(q)] \in Range(init) THEN init
            ELSE Append(init, q[Len(q)])

\* a faulty variant: the group keys of .groupby(level=1, sort=False)
groupby_keys_unsorted(s) == FirstSeen([p \in DOMAIN s |-> s[p].col])

\* the group keys of .groupby(level=1): level 1 of the stacked index is the
\* column (group) name; groupby sorts its keys
groupby_keys(s) == Sorted(GroupNames, {s[p].col : p \in DOMAIN s})

\* .groupby(level=1).sum()
groupby_sum(s, dummies) ==
    [k \in Range(groupby_keys(s)) |->
        [g \in Range(dummy_columns(s)) |->
            LET P == {p \in DOMAIN s : s[p].col = k}
            IN SetSum(P, [p \in P |-> dummies[p][g]])]]

\* .clip(upper=1)
clip(m) == [k \in DOMAIN m |-> [g \in DOMAIN m[k] |-> IF m[k][g] > 1 THEN 1 ELSE m[k][g]]]

dict_to_binary(d, dropna) ==
    IF d = <<>>
    THEN \* pd.concat([]) raises "No objects to concatenate"
         [status |-> "ValueError"]
    ELSE LET s == stack(concat(d), dropna)
         IN [status |-> "ok",
             index |-> groupby_keys(s),
             columns |-> dummy_columns(s),
             values |-> clip(groupby_sum(s, get_dummies(s)))]

GeneLists == UNION {[1..n -> Range(GeneNames)] : n \in 0..MaxGenes}

\* the dicts of n items: their keys are distinct
Dicts(n) ==
    {d \in [1..n -> [k : Range(GroupNames), v : GeneLists]] :
        \A i, j \in DOMAIN d : i # j => d[i].k # d[j].k}

InitBinary ==
    /\ pc = "start"
    /\ ret = Pending
    /\ \E n \in 0..Len(GroupNames) :
          \E d \in Dicts(n) : call = [fn |-> "dict_to_binary", args |-> [d |-> d]]
    /\ stack_dropna \in BOOLEAN

CallDictToBinary ==
    /\ pc = "start"
    /\ call.fn = "dict_to_binary"
    /\ ret' = dict_to_binary(call.args.d, stack_dropna)
    /\ pc' = "done"
    /\ UNCHANGED <<call, stack_dropna>>

---------------------------------------------------------------------------
(* Feature matcher: match, and get_expr                                    *)

FeatureNames == {"g1", "g2", "g3"}

\* an index, or None
Some(i) == [none |-> FALSE, idx |-> i]

None == [none |-> TRUE, idx |-> -1]

RECURSIVE index_from(_, _, _)
\* b.index(x), 0-based, scanning from position i; x occurs at or after i
index_from(b, x, i) == IF b[i + 1] = x THEN i ELSE index_from(b, x, i + 1)

\* a faulty variant: the index of the last occurrence
index_last(b, x) == CHOOSE i \in 0..(Len(b) - 1) :
                        b[i + 1] = x /\ \A j \in (i + 1)..(Len(b) - 1) : b[j + 1] # x

\* b.index(x)
index(b, x) == index_from(b, x, 0)

\* [b.index(x) if x in b else None for x in a]
match(a, b) ==
    [i \in DOMAIN a |-> IF a[i] \in Range(b) THEN Some(index(b, a[i])) ELSE None]

NameLists(n) == UNION {[1..m -> FeatureNames] : m \in 0..n}

\* An AnnData of one observation whose X holds the number of its own
\* column, and whose layer "counts" holds 10 more, so that a selected
\* column still tells which column of the matrix it was.
AnnData(var_names) ==
    [var_names |-> var_names,
     X |-> <<[j \in DOMAIN var_names |-> j]>>,
     layers |-> [counts |-> <<[j \in DOMAIN var_names |-> 10 + j]>>]]

\* a faulty variant: the requested names, not intersected
requested_features(features, var_names) == Range(features)

\* set(features) & set(adata.var_names)
intersect_features(features, var_names) == Range(features) \cap Range(var_names)

\* list(S): the elements of a set, in the order the set happens to yield
Orderings(S) == {q \in [1..Cardinality(S) -> S] : Range(q) = S}

\* adata[:, idx]: a None among the indices cannot index a column
select_columns(adata, idx) ==
    IF \E i \in DOMAIN idx : idx[i].none
    THEN [status |-> "IndexError"]
    ELSE LET pick(row) == [i \in DOMAIN idx |-> row[idx[i].idx + 1]]
         IN [status |-> "ok",
             var_names |-> pick(adata.var_names),
             X |-> [c \in DOMAIN adata.X |-> pick(adata.X[c])],
             layers |-> [counts |->
                            [c \in DOMAIN adata.layers.counts |->
                                pick(adata.layers.counts[c])]]]

\* adata.layers[layer] or adata.X, as a dense array
expr_of(adata, layer) ==
    IF ~layer.none THEN adata.layers.counts ELSE adata.X

\* get_expr; listed is list(set(features) & set(adata.var_names)).  The
\* result also records idx, the index list handed to adata[:, ...].
get_expr(adata, features, layer, listed) ==
    IF ~features.none
    THEN LET idx == match(listed, adata.var_names)
             sub == select_columns(adata, idx)
         IN IF sub.status # "ok"
            THEN [status |-> sub.status, idx |-> idx]
            ELSE [status |-> "ok", idx |-> idx,
                  expr |-> expr_of(sub, layer), features |-> listed]
    ELSE [status |-> "ok", idx |-> <<>>,
          expr |-> expr_of(adata, layer), features |-> adata.var_names]

InitFeatures ==
    /\ pc = "start"
    /\ ret = Pending
    /\ \/ \E a \in NameLists(MaxRequested), b \in NameLists(MaxVars) :
             call = [fn |-> "match", args |-> [a |-> a, b |-> b]]
       \/ \E f \in {[none |-> TRUE, list |-> <<>>]}
                     \cup {[none |-> FALSE, list |-> a] : a \in NameLists(MaxRequested)},
             b \in NameLists(MaxVars),
             l \in {[none |-> TRUE], [none |-> FALSE]} :
             call = [fn |-> "get_expr",
                     args |-> [adata |-> AnnData(b), features |-> f, layer |-> l]]
    /\ stack_dropna = TRUE

CallMatch ==
    /\ pc = "start"
    /\ call.fn = "match"
    /\ ret' = [status |-> "ok", value |-> match(call.args.a, call.args.b)]
    /\ pc' = "done"
    /\ UNCHANGED <<call, stack_dropna>>

CallGetExpr ==
    /\ pc = "start"
    /\ call.fn = "get_expr"
    /\ \E listed \in Orderings(intersect_features(call.args.features.list,
                                                  call.args.adata.var_names)) :
          ret' = get_expr(call.args.adata, call.args.features, call.args.layer,
                          listed)
    /\ pc' = "done"
    /\ UNCHANGED <<call, stack_dropna>>

---------------------------------------------------------------------------
(* Long-format reshaper: matrix_to_long_df                                 *)

LongNames == <<"n1", "n2", "n3", "n4">>

\* a missing number
NumNaN == [na |-> TRUE, v |-> 0]

\* pd.DataFrame(x, index=groups, columns=features); df.stack().reset_index()
\* with the columns named group, feature, value
matrix_to_long_df(x, features, groups, dropna) ==
    IF Len(x) # Len(groups) \/ \E i \in DOMAIN x : Len(x[i]) # Len(features)
    THEN [status |-> "ValueError"]
    ELSE LET s == stack([columns |-> features, data |-> x], dropna)
         IN [status |-> "ok",
             value |-> [p \in DOMAIN s |->
                          [group |-> groups[s[p].row],
                           feature |-> s[p].col,
                           value |-> s[p].val]]]

InitLong ==
    /\ pc = "start"
    /\ ret = Pending
    /\ \E g \in 1..MaxGroups, f \in 1..MaxFeatures :
         \E x \in Matrices(g, f, {NumNaN, Val(0), Val(1)}) :
            call = [fn |-> "matrix_to_long_df",
                    args |-> [x |-> x,
                              features |-> SubSeq(LongNames, 1, f),
                              groups |-> SubSeq(LongNames, 1, g)]]
    /\ stack_dropna \in BOOLEAN

CallMatrixToLongDf ==
    /\ pc = "start"
    /\ call.fn = "matrix_to_long_df"
    /\ ret' = matrix_to_long_df(call.args.x, call.args.features,
                                call.args.groups, stack_dropna)
    /\ pc' = "done"
    /\ UNCHANGED <<call, stack_dropna>>

---------------------------------------------------------------------------
(* The program: one call of one function                                   *)

Init ==
    \/ InitAggregate
    \/ InitDepth
    \/ InitBinary
    \/ InitFeatures
    \/ InitLong

Next ==
    \/ CallMaskedMax
    \/ CallMaskedMean
    \/ CallMarkerDictDepth
    \/ CallDictToBinary
    \/ CallMatch
    \/ CallGetExpr
    \/ CallMatrixToLongDf

Spec == Init /\ [][Next]_vars

\* The same program, one component at a time: the calls of the masked
\* aggregators, of marker_dict_depth, of dict_to_binary, of match and
\* get_expr, and of matrix_to_long_df.
NextAggregate ==
    \/ CallMaskedMax
    \/ CallMaskedMean

SpecAggregate == InitAggregate /\ [][NextAggregate]_vars

NextDepth == CallMarkerDictDepth

SpecDepth == InitDepth /\ [][NextDepth]_vars

NextBinary == CallDictToBinary

SpecBinary == InitBinary /\ [][NextBinary]_vars

NextFeatures ==
    \/ CallMatch
    \/ CallGetExpr

SpecFeatures == InitFeatures /\ [][NextFeatures]_vars

NextLong == CallMatrixToLongDf

SpecLong == InitLong /\ [][NextLong]_vars

---------------------------------------------------------------------------
(* Masked aggregators: claims                                              *)

Returned(f) == pc = "done" /\ call.fn = f

\* the cells a mask selects
Selected(m) == {c \in DOMAIN m : m[c] = 1}

\* the mask runs along axis 1 of x, as the code multiplies it
MaskAlongColumns == Len(call.args.mask[1]) = Len(call.args.x[1])

\* the mask runs along axis 0 of x, as x[c][f] with a mask over cells reads
MaskAlongRows == Len(call.args.mask[1]) = Len(call.args.x)

\* C1 (read in the layout the code accepts, x[f][c], see C3): for every
\* group whose mask selects a cell and every feature, masked_max is the
\* maximum of x over exactly the selected cells; the masked-out cells do not
\* influence it.
C1_MaskedMaxOverMembers ==
    (Returned("masked_max") /\ MaskAlongColumns) =>
        /\ ret.status = "ok"
        /\ \A g \in DOMAIN call.args.mask, f \in DOMAIN call.args.x :
              Selected(call.args.mask[g]) # {} =>
                 ret.value[g][f] =
                    SetMax({call.args.x[f][c] : c \in Selected(call.args.mask[g])})

\* C2: masked_mean with a group whose mask is all zero reports a
\* DomainError; it returns neither 0 nor NaN for that group.
C2_EmptyGroupIsDomainError ==
    (/\ Returned("masked_mean")
     /\ MaskAlongColumns
     /\ \E g \in DOMAIN call.args.mask : Selected(call.args.mask[g]) = {}) =>
        ret.status = "DomainError"

---------------------------------------------------------------------------
(* Marker hierarchy: claims                                                *)

\* what one entry contributes: 1 + the depth of its subtypes when the key
\* is present and its value is a mapping, else 1 + 0
LocalDepth(data) ==
    1 + (IF data.has_subtypes /\ data.is_dict
         THEN marker_dict_depth(data.subtypes)
         ELSE 0)

RECURSIVE NoSubtypesAnywhere(_)
NoSubtypesAnywhere(h) ==
    \A i \in DOMAIN h :
        /\ ~h[i].has_subtypes
        /\ NoSubtypesAnywhere(h[i].subtypes)

\* C4: for a non-empty hierarchy h, marker_dict_depth(h) is the maximum
\* over the entries of 1 + (depth of the entry's subtypes when present and
\* a mapping, else 0); it is at least 1, and exactly 1 when no node has
\* subtypes.
C4_DepthIsMaxOverEntries ==
    (Returned("marker_dict_depth") /\ call.args.marker_hierarchy # <<>>) =>
        LET h == call.args.marker_hierarchy
        IN /\ ret.value = SetMax({LocalDepth(h[i]) : i \in DOMAIN h})
           /\ ret.value >= 1
           /\ NoSubtypesAnywhere(h) => ret.value = 1

C4_Witness ==
    /\ Returned("marker_dict_depth")
    /\ call.args.marker_hierarchy =
          <<Internal(<<Leaf, Internal(<<Leaf>>)>>), NotADict>>
    /\ ret.value = 3

---------------------------------------------------------------------------
(* Binary marker encoder: claims                                           *)

\* the genes of all the lists of d
AllGenes(d) == UNION {Range(d[j].v) : j \in DOMAIN d}

NoDuplicates(q) == \A i, j \in DOMAIN q : i # j => q[i] # q[j]

\* C5: for a non-empty mapping, dict_to_binary returns one row per group of
\* the input and one column per gene of the union of the lists, with 1 at
\* (group, gene) when the gene occurs in the group's list, however often,
\* and 0 otherwise.
C5_OneRowPerGroup ==
    (Returned("dict_to_binary") /\ call.args.d # <<>>) =>
        LET d == call.args.d
        IN /\ ret.status = "ok"
           /\ NoDuplicates(ret.index)
           /\ Range(ret.index) = Range(Keys(d))
           /\ NoDuplicates(ret.columns)
           /\ Range(ret.columns) = AllGenes(d)
           /\ \A j \in DOMAIN d, g \in AllGenes(d) :
                 ret.values[d[j].k][g] = IF g \in Range(d[j].v) THEN 1 ELSE 0

\* C6: dict_to_binary of an empty mapping returns a matrix of 0 rows and
\* does not raise.
C6_EmptyMappingGivesEmptyMatrix ==
    (Returned("dict_to_binary") /\ call.args.d = <<>>) =>
        /\ ret.status = "ok"
        /\ ret.index = <<>>

\* C7 as stated: the rows of the returned matrix appear in the insertion
\* order of the groups in the input mapping.
C7_Original_RowsInInsertionOrder ==
    (Returned("dict_to_binary") /\ ret.status = "ok") =>
        ret.index =
           SelectSeq(Keys(call.args.d), LAMBDA k : k \in Range(ret.index))

\* C7 amended: the rows of the returned matrix appear in ascending sorted
\* order of the group names, whatever the insertion order of the mapping.
C7_RowsInSortedOrder ==
    (Returned("dict_to_binary") /\ ret.status = "ok") =>
        /\ Range(ret.index) \subseteq Range(Keys(call.args.d))
        /\ ret.index = Sorted(GroupNames, Range(ret.index))

C7_Witness ==
    /\ Returned("dict_to_binary")
    /\ call.args.d = <<[k |-> "C", v |-> <<"g2">>], [k |-> "A", v |-> <<"g1", "g2">>],
                       [k |-> "B", v |-> <<"g1">>]>>
    /\ ret.status = "ok"
    /\ ret.index = <<"A", "B", "C">>

---------------------------------------------------------------------------
(* Feature matcher and get_expr: claims                                    *)

\* C8: match(a, b) has the length of a; its i-th entry is the (0-based)
\* index of the first occurrence of a[i] in b when a[i] occurs in b, and
\* None, which is no index, otherwise.
C8_MatchFirstOccurrence ==
    Returned("match") =>
        LET a == call.args.a
            b == call.args.b
        IN /\ Len(ret.value) = Len(a)
           /\ \A i \in DOMAIN a :
                 IF \E j \in DOMAIN b : b[j] = a[i]
                 THEN /\ ~ret.value[i].none
                      /\ ret.value[i].idx \in 0..(Len(b) - 1)
                      /\ b[ret.value[i].idx + 1] = a[i]
                      /\ \A j \in 1..ret.value[i].idx : b[j] # a[i]
                 ELSE /\ ret.value[i] = None
                      /\ \A k \in 0..Len(b) : ret.value[i] # Some(k)

C8_Witness ==
    /\ Returned("match")
    /\ call.args.a = <<"g2", "g3", "g2">>
    /\ call.args.b = <<"g1", "g2", "g2">>
    /\ ret.value = <<Some(1), None, Some(1)>>

\* C10: in get_expr called with a feature list, the index list handed to
\* the column selection holds no None, and its i-th index is the position
\* in adata.var_names of the i-th returned feature name, so that the
\* returned names label the selected columns one for one.
C10_SelectionMatchesReturnedFeatures ==
    (Returned("get_expr") /\ ~call.args.features.none) =>
        LET var_names == call.args.adata.var_names
            source == expr_of(call.args.adata, call.args.layer)
        IN /\ ret.status = "ok"
           /\ Len(ret.idx) = Len(ret.features)
           /\ \A i \in DOMAIN ret.idx :
                 /\ ~ret.idx[i].none
                 /\ ret.idx[i].idx \in 0..(Len(var_names) - 1)
                 /\ var_names[ret.idx[i].idx + 1] = ret.features[i]
           /\ \A c \in DOMAIN ret.expr :
                 /\ Len(ret.expr[c]) = Len(ret.features)
                 /\ \A i \in DOMAIN ret.features :
                       ret.expr[c][i] = source[c][ret.idx[i].idx + 1]

C10_Witness ==
    /\ Returned("get_expr")
    /\ ~call.args.features.none
    /\ call.args.features.list = <<"g3", "g1", "g3">>
    /\ call.args.adata.var_names = <<"g2", "g3", "g2">>
    /\ ret.status = "ok"
    /\ ret.idx = <<Some(1)>>
    /\ ret.features = <<"g3">>

---------------------------------------------------------------------------
(* Long-format reshaper: claims                                            *)

\* C9: matrix_to_long_df of a matrix of G groups and F features returns
\* G*F records, one per cell whatever its value, in row-major order.
C9_OneRecordPerCell ==
    Returned("matrix_to_long_df") =>
        LET x == call.args.x
            G == Len(call.args.groups)
            F == Len(call.args.features)
        IN /\ ret.status = "ok"
           /\ Len(ret.value) = G * F
           /\ \A i \in 1..G, j \in 1..F :
                 LET r == ret.value[(i - 1) * F + j]
                 IN /\ r.group = call.args.groups[i]
                    /\ r.feature = call.args.features[j]
                    /\ r.value.na = x[i][j].na
                    /\ r.value.v = x[i][j].v

=============================================================================
